---- MODULE Spec2Model ----
(***************************************************************************)
(* Model of _TabularExperiment in                                          *)
(* pycaret/internal/pycaret_experiment/tabular_experiment.py:              *)
(* the metric lookup _get_metric_by_name_or_id and the model selection     *)
(* routine automl over the session's master_model_container.               *)
(*                                                                         *)
(* Python objects are represented by identifiers: a metric descriptor by   *)
(* its position in the metric dictionary (0 is None), a model by a         *)
(* positive integer (0 is None), a cross validation generator by a         *)
(* positive integer.  An optional score is <<>> (None) or <<v>>.           *)
(***************************************************************************)
EXTENDS Integers, Sequences, FiniteSets, TLC

VARIABLES
    all_metrics,            \* self._all_metrics: ordered dict, as a sequence of descriptors
    name_or_id,             \* argument of the last _get_metric_by_name_or_id call ("" before any)
    metric,                 \* result of the last _get_metric_by_name_or_id call (0 is None)
    master_model_container, \* self.master_model_container
    display_container,      \* self.display_container
    fold_generator,         \* self.fold_generator
    multiclass,             \* value of self._is_multiclass()
    unsupervised,           \* value of self._is_unsupervised()
    optimize,               \* automl argument (rebound to the scorer at line 2300)
    use_holdout,            \* automl argument
    turbo,                  \* automl argument
    pc,                     \* position of automl
    err,                    \* exception automl terminated with ("" if none)
    compare_dimension,      \* automl local
    greater_is_better,      \* automl local
    best_model,             \* automl local (0 is None)
    best_score,             \* automl local (<<>> is None)
    i,                      \* loop position (index into the container)
    n,                      \* len(self.master_model_container) taken at line 2343
    entry,                  \* automl local `model` of the CV loop: the entry read at line 2344
    model,                  \* automl local `model` of the holdout loop (0 before the loop)
    predict_error,          \* history: kind of the predict_model failure being recovered from ("" if none)
    automl_model,           \* automl return value (0 until it returns)
    next_model,             \* identifier of the next object the Trainer creates
    trainer_calls,          \* history: create_model calls made by automl
    predict_calls,          \* history: number of predict_model calls made by automl
    predict_at,             \* history: the loop position of each predict_model call
    examined,               \* history: container indices automl has read
    compared,               \* history: the (entry index, score, model) triples passed to compare_score
    pops,                   \* history: number of master_model_container.pop() calls
    container0,             \* history: the container when automl was called
    trainer_tables,         \* the score tables create_model can produce in this session
    params,                 \* _mlflow_log_model: the estimator's parameters, (key, value) items in dict order
    params_raises,          \* _mlflow_log_model: get_all_params() and get_params() both raise
    logged_params,          \* _mlflow_log_model: the dict passed to mlflow.log_params (<<>> before the call)
    plot_args,              \* plot_model: the arguments of the call (<<>> before the call)
    plot_outcome,           \* plot_model: "" before the call, then the check that raised or "render"
    plot_saved,             \* plot_model: the files the call has written
    plot_return,            \* plot_model: the return value (<<>> is None)
    cv_calls                \* history: the (fold, result) pairs of the _get_cv_splitter calls

vars == <<all_metrics, name_or_id, metric, master_model_container,
          display_container, fold_generator, multiclass, unsupervised,
          optimize, use_holdout, turbo, pc, err, compare_dimension,
          greater_is_better, best_model, best_score, i, n, entry, model,
          predict_error,
          automl_model, next_model, trainer_calls, predict_calls, predict_at,
          examined, compared, pops, container0, trainer_tables, params,
          params_raises, logged_params, plot_args, plot_outcome, plot_saved,
          plot_return, cv_calls>>

-----------------------------------------------------------------------------
(* Bounds *)

\* largest number of entries in the model container when automl is called
MaxEntries == 3

\* largest number of descriptors in a metric dictionary of the lookup specification
MaxMetrics == 2

\* mean scores that occur in score tables
Scores == {-1, 0, 1}

\* strings used as metric ids, display names and names in the lookup specification
Names == {"a", "b", "c"}

-----------------------------------------------------------------------------
(* Metric dictionary and _get_metric_by_name_or_id *)

None == 0

\* a dict has one value per key
UniqueKeys(metrics) ==
    \A a, b \in 1..Len(metrics) : metrics[a].id = metrics[b].id => a = b

\* metrics[name_or_id] succeeds
HasKey(metrics, key) == \E a \in 1..Len(metrics) : metrics[a].id = key

\* metrics[name_or_id]
GetItem(metrics, key) == CHOOSE a \in 1..Len(metrics) : metrics[a].id = key

\* the membership test with the display name left out
NameMatches_NameOnly(v, key) == key = v.name

\* name_or_id in (v.display_name, v.name)
NameMatches(v, key) == key = v.display_name \/ key = v.name

\* next(v for k, v in metrics.items() if ...), scanning from position a;
\* None when the generator is exhausted (StopIteration is swallowed)
RECURSIVE NextMatch(_, _, _)
NextMatch(metrics, key, a) ==
    IF a > Len(metrics) THEN None
    ELSE IF NameMatches(metrics[a], key) THEN a
    ELSE NextMatch(metrics, key, a + 1)

\* the lookup with the two steps in the opposite order
GetMetric_NamesFirst(key, metrics) ==
    IF NextMatch(metrics, key, 1) # None THEN NextMatch(metrics, key, 1)
    ELSE IF HasKey(metrics, key) THEN GetItem(metrics, key)
    ELSE None

\* the lookup falling back to the first metric when nothing matches
GetMetric_Fallback(key, metrics) ==
    IF HasKey(metrics, key) THEN GetItem(metrics, key)
    ELSE IF NextMatch(metrics, key, 1) # None THEN NextMatch(metrics, key, 1)
    ELSE 1

\* lines 136-157
_get_metric_by_name_or_id(key, metrics) ==
    IF HasKey(metrics, key) THEN GetItem(metrics, key)
    ELSE NextMatch(metrics, key, 1)

-----------------------------------------------------------------------------
(* Session data of the selection specification *)

\* the metric dictionary of the session
AutomlMetrics ==
    << [id |-> "acc", display_name |-> "Accuracy", name |-> "Accuracy",
        greater_is_better |-> TRUE, is_multiclass |-> TRUE],
       [id |-> "auc", display_name |-> "AUC", name |-> "AUC",
        greater_is_better |-> TRUE, is_multiclass |-> FALSE],
       [id |-> "mae", display_name |-> "MAE", name |-> "MAE",
        greater_is_better |-> FALSE, is_multiclass |-> TRUE] >>

\* values passed as automl's optimize argument
OptimizeArgs == {"acc", "AUC", "mae", "Bogus"}

\* columns of a score table: the display names of the metrics
Columns == {AutomlMetrics[a].display_name : a \in 1..Len(AutomlMetrics)}

\* cross validation generator objects; DefaultFold is the session's fold_generator
DefaultFold == 1
CVGens == {1, 2}

\* a cross validation score table with mean m: two fold rows, then the
\* mean row and the standard deviation row
CVTable(m) == [c \in Columns |-> <<m - 1, m + 1, m, 1>>]

\* a holdout score table: a single row
HoldoutTable(p) == [c \in Columns |-> <<p>>]

ScoreTables == {CVTable(m) : m \in Scores}

\* the containers a session can hold when automl is called: entry j holds
\* model object j, the generator it was scored with and its score table
Containers ==
    UNION {{[j \in 1..k |-> [model |-> j, cv |-> f[j].cv, scores |-> CVTable(f[j].m)]] :
                f \in [1..k -> [cv : CVGens, m : Scores]]} : k \in 0..MaxEntries}

\* the holdout basis never reads the stored score tables: there the
\* containers are enumerated with a single stored table
HoldoutContainers ==
    {c \in Containers : \A j \in 1..Len(c) : c[j].scores = CVTable(0)}

NoEntry == [model |-> None, cv |-> 0, scores |-> [c \in Columns |-> <<>>]]

-----------------------------------------------------------------------------
(* automl: helpers *)

Front(s) == SubSeq(s, 1, Len(s) - 1)
Last(s) == s[Len(s)]

\* Python truth value of best_score: None and 0 are falsy
Truthy(best) == best # <<>> /\ best[1] # 0

\* the comparison replacing the running best on a tie
compare_score_NonStrict(new, best) ==
    IF ~Truthy(best) THEN TRUE
    ELSE IF greater_is_better THEN new >= best[1]
    ELSE new <= best[1]

\* compare_score, lines 2305-2311
compare_score(new, best) ==
    IF ~Truthy(best) THEN TRUE
    ELSE IF greater_is_better THEN new > best[1]
    ELSE new < best[1]

\* col[-2:]
LastTwo(col) == IF Len(col) <= 2 THEN col ELSE SubSeq(col, Len(col) - 1, Len(col))

\* the last row read instead of the second-to-last
CVScore_LastRow(scores) == Last(scores[compare_dimension])

\* scores[compare_dimension][-2:][0], line 2362
CVScore(scores) == LastTwo(scores[compare_dimension])[1]

\* p[compare_dimension][0], line 2336
HoldoutScore(p) == p[compare_dimension][1]

\* a record of one create_model call: result is the model returned, None if it raised
\* site is the call's place in automl: "rescore" (line 2349), "retrain" (line 2324)
\* or "final" (line 2367); at is the loop position
TrainerCall(site, cv, estimator, result) ==
    [site |-> site, cross_validation |-> cv, estimator |-> estimator,
     result |-> result, at |-> i]

-----------------------------------------------------------------------------
(* automl: validation, lines 2284-2311 *)

session == <<all_metrics, fold_generator, multiclass, unsupervised, use_holdout,
             turbo, container0, trainer_tables, params, params_raises,
             logged_params, plot_args, plot_outcome, plot_saved, plot_return,
             cv_calls>>
locals == <<compare_dimension, greater_is_better, best_model, best_score, i, n,
            entry, model>>
history == <<trainer_calls, predict_calls, predict_at, predict_error, examined,
            compared, pops>>

\* the gate without the test of the target
MulticlassUnsupported_AnyTarget(m) == ~all_metrics[m].is_multiclass

\* lines 2292-2293: the target is multiclass and metric m does not support it
MulticlassUnsupported(m) == multiclass /\ ~all_metrics[m].is_multiclass

\* lines 2285-2289: the optimize argument resolves to no metric
AutomlInvalidMetric ==
    /\ pc = "start"
    /\ _get_metric_by_name_or_id(optimize, all_metrics) = None
    /\ name_or_id' = optimize
    /\ metric' = None
    /\ pc' = "raised"
    /\ err' = "ValueError"
    /\ UNCHANGED <<session, locals, history, optimize,
                   master_model_container, display_container, automl_model,
                   next_model>>

\* lines 2291-2296: the metric is not supported for a multiclass target
AutomlMulticlassUnsupported ==
    /\ pc = "start"
    /\ LET m == _get_metric_by_name_or_id(optimize, all_metrics) IN
        /\ m # None
        /\ MulticlassUnsupported(m)
        /\ metric' = m
    /\ name_or_id' = optimize
    /\ pc' = "raised"
    /\ err' = "TypeError"
    /\ UNCHANGED <<session, locals, history, optimize,
                   master_model_container, display_container, automl_model,
                   next_model>>

\* the length taken as one more than it is
LoopLength_OneMore == Len(master_model_container) + 1

\* line 2343: len(self.master_model_container), taken once before the loop
LoopLength == Len(master_model_container)

\* lines 2285-2311, then the loop header at line 2315 or 2343
AutomlBegin ==
    /\ pc = "start"
    /\ LET m == _get_metric_by_name_or_id(optimize, all_metrics) IN
        /\ m # None
        /\ ~MulticlassUnsupported(m)
        /\ metric' = m
        /\ compare_dimension' = all_metrics[m].display_name
        /\ greater_is_better' = all_metrics[m].greater_is_better
    /\ name_or_id' = optimize
    /\ optimize' = "scorer"
    /\ best_model' = None
    /\ best_score' = <<>>
    /\ i' = 1
    /\ n' = IF use_holdout THEN 0 ELSE LoopLength
    /\ pc' = IF use_holdout THEN "holdout_loop" ELSE "cv_loop"
    /\ UNCHANGED <<session, history, entry, model, err,
                   master_model_container, display_container, automl_model,
                   next_model>>

\* lines 2337-2339 and 2363-2365: the running best after comparing score r of model m
Compare(r, m) ==
    /\ best_model' = IF compare_score(r, best_score) THEN m ELSE best_model
    /\ best_score' = IF compare_score(r, best_score) THEN <<r>> ELSE best_score
    /\ compared' = Append(compared, [index |-> i, score |-> r, model |-> m])

-----------------------------------------------------------------------------
(* automl: cross validation basis, lines 2341-2365 *)

\* the configuration of a generator object: objects 1 and 2 are distinct
\* objects with equal configurations, object 3 has another fold count
GenValue(g) ==
    [kind |-> "kfold", n_splits |-> IF g = 3 THEN 5 ELSE 10, seed |-> 42,
     shuffle |-> FALSE]

\* the comparison by value instead of identity
NonDefault_ByValue(e) == GenValue(e.cv) # GenValue(fold_generator)

\* line 2346: model["cv"] is not self.fold_generator (object identity)
NonDefault(e) == e.cv # fold_generator

\* the skip condition without turbo
SkipEntry_NoTurbo == unsupervised

\* the skip condition without the use-case
SkipEntry_TurboOnly == turbo

\* line 2347: turbo or self._is_unsupervised()
SkipEntry == turbo \/ unsupervised

\* create_model(cross_validation=True) of the Trainer: it appends the entry
\* of the model it fitted, scored with the default folds, and its score table
TrainerAppend(t) ==
    /\ master_model_container' =
          Append(master_model_container,
                 [model |-> next_model, cv |-> fold_generator, scores |-> t])
    /\ display_container' = Append(display_container, t)

\* lines 2344-2348: an entry scored with another generator is skipped
CVSkip ==
    /\ pc = "cv_loop"
    /\ i <= n
    /\ i <= Len(master_model_container)
    /\ NonDefault(master_model_container[i])
    /\ SkipEntry
    /\ entry' = master_model_container[i]
    /\ examined' = examined \cup {i}
    /\ i' = i + 1
    /\ UNCHANGED <<session, name_or_id, metric, optimize, pc, err, compare_dimension,
                   greater_is_better, best_model, best_score, n, model,
                   master_model_container, display_container, automl_model,
                   next_model, trainer_calls, predict_calls, predict_at, predict_error,
                   compared, pops>>

\* lines 2344-2356: create_model(cross_validation=True) returns; the Trainer
\* has appended the new entry and its score table
CVRescore ==
    /\ pc = "cv_loop"
    /\ i <= n
    /\ i <= Len(master_model_container)
    /\ NonDefault(master_model_container[i])
    /\ ~SkipEntry
    /\ entry' = master_model_container[i]
    /\ examined' = examined \cup {i}
    /\ \E t \in trainer_tables : TrainerAppend(t)
    /\ trainer_calls' =
          Append(trainer_calls,
                 TrainerCall("rescore", TRUE, master_model_container[i].model, next_model))
    /\ next_model' = next_model + 1
    /\ pc' = "cv_rescored"
    /\ UNCHANGED <<session, name_or_id, metric, optimize, err, compare_dimension,
                   greater_is_better, best_model, best_score, i, n, model,
                   automl_model, predict_calls, predict_at, predict_error, compared, pops>>

\* the failure of the re-score swallowed: the entry is skipped
CVRescoreRaises_Skipped ==
    /\ pc = "cv_loop"
    /\ i <= n
    /\ i <= Len(master_model_container)
    /\ NonDefault(master_model_container[i])
    /\ ~SkipEntry
    /\ entry' = master_model_container[i]
    /\ examined' = examined \cup {i}
    /\ trainer_calls' =
          Append(trainer_calls,
                 TrainerCall("rescore", TRUE, master_model_container[i].model, None))
    /\ i' = i + 1
    /\ UNCHANGED <<session, name_or_id, metric, optimize, pc, err, compare_dimension,
                   greater_is_better, best_model, best_score, n, model,
                   master_model_container, display_container, automl_model,
                   next_model, predict_calls, predict_at, predict_error, compared,
                   pops>>

\* lines 2344-2356: create_model(cross_validation=True) raises
CVRescoreRaises ==
    /\ pc = "cv_loop"
    /\ i <= n
    /\ i <= Len(master_model_container)
    /\ NonDefault(master_model_container[i])
    /\ ~SkipEntry
    /\ entry' = master_model_container[i]
    /\ examined' = examined \cup {i}
    /\ trainer_calls' =
          Append(trainer_calls, TrainerCall("rescore", TRUE, master_model_container[i].model, None))
    /\ pc' = "raised"
    /\ err' = "TrainerError"
    /\ UNCHANGED <<session, name_or_id, metric, optimize, compare_dimension,
                   greater_is_better, best_model, best_score, i, n, model,
                   master_model_container, display_container, automl_model,
                   next_model, predict_calls, predict_at, predict_error, compared, pops>>

\* the pop left out
PopContainer_Missing == master_model_container' = master_model_container

\* the first entry popped instead of the last
PopContainer_First == master_model_container' = Tail(master_model_container)

\* line 2358: self.master_model_container.pop()
PopContainer == master_model_container' = Front(master_model_container)

\* the model of the entry the re-score appended
RescoredModel_Transient == Last(master_model_container).model

\* line 2364: model["model"], the model of the entry read at line 2344
RescoredModel == entry.model

\* lines 2357-2365: pull the new score table, pop the container, compare
CVPopCompare ==
    /\ pc = "cv_rescored"
    /\ display_container # <<>>
    /\ master_model_container # <<>>
    /\ display_container' = Front(display_container)
    /\ PopContainer
    /\ pops' = pops + 1
    /\ Compare(CVScore(Last(display_container)), RescoredModel)
    /\ i' = i + 1
    /\ pc' = "cv_loop"
    /\ UNCHANGED <<session, name_or_id, metric, optimize, err, compare_dimension,
                   greater_is_better, n, entry, model, automl_model, next_model,
                   trainer_calls, predict_calls, predict_at, predict_error, examined>>

\* lines 2344-2346 and 2359-2365: an entry scored with the default generator
CVCompareStored ==
    /\ pc = "cv_loop"
    /\ i <= n
    /\ i <= Len(master_model_container)
    /\ ~NonDefault(master_model_container[i])
    /\ entry' = master_model_container[i]
    /\ examined' = examined \cup {i}
    /\ Compare(CVScore(master_model_container[i].scores), master_model_container[i].model)
    /\ i' = i + 1
    /\ UNCHANGED <<session, name_or_id, metric, optimize, pc, err, compare_dimension,
                   greater_is_better, n, model, master_model_container,
                   display_container, automl_model, next_model, trainer_calls,
                   predict_calls, predict_at, predict_error, pops>>

\* line 2343: range(len(...)) is exhausted
CVLoopEnd ==
    /\ pc = "cv_loop"
    /\ i > n
    /\ pc' = "final"
    /\ UNCHANGED <<session, locals, history, name_or_id, metric, optimize, err,
                   master_model_container, display_container, automl_model,
                   next_model>>

-----------------------------------------------------------------------------
(* automl: holdout basis, lines 2313-2339 *)

\* kinds of failure of predict_model
PredictErrors == {"NotFitted", "Other"}

\* lines 2315-2319 and 2335-2339: predict_model returns a holdout table,
\* which pull(pop=True) takes off the display container again
HoldoutPredict ==
    /\ pc = "holdout_loop"
    /\ i <= Len(master_model_container)
    /\ model' = master_model_container[i].model
    /\ examined' = examined \cup {i}
    /\ predict_calls' = predict_calls + 1
    /\ predict_at' = Append(predict_at, i)
    /\ \E p \in Scores :
          Compare(HoldoutScore(HoldoutTable(p)), master_model_container[i].model)
    /\ i' = i + 1
    /\ UNCHANGED <<session, name_or_id, metric, optimize, pc, err, compare_dimension,
                   greater_is_better, n, entry, master_model_container,
                   display_container, automl_model, next_model, trainer_calls,
                   predict_error, pops>>

\* lines 2315-2323: predict_model raises and the bare except catches it
HoldoutPredictRaises ==
    /\ pc = "holdout_loop"
    /\ i <= Len(master_model_container)
    /\ model' = master_model_container[i].model
    /\ examined' = examined \cup {i}
    /\ predict_calls' = predict_calls + 1
    /\ predict_at' = Append(predict_at, i)
    /\ \E e \in PredictErrors : predict_error' = e
    /\ pc' = "holdout_retrain"
    /\ UNCHANGED <<session, name_or_id, metric, optimize, err, compare_dimension,
                   greater_is_better, best_model, best_score, i, n, entry,
                   master_model_container, display_container, automl_model,
                   next_model, trainer_calls, compared, pops>>

\* the re-train asking for cross validation
RetrainCrossValidation_Enabled == TRUE

\* line 2328: the cross_validation argument of the re-train
RetrainCrossValidation == FALSE

\* the container after create_model(cross_validation=cv) returned, having
\* produced table t: the Trainer appends an entry only when it cross validates
TrainerContainer(cv, t) ==
    IF cv
    THEN Append(master_model_container,
                [model |-> next_model, cv |-> fold_generator, scores |-> t])
    ELSE master_model_container

\* lines 2324-2332: create_model(cross_validation=False) returns a new model;
\* pull(pop=True) takes its table off the display container
HoldoutRetrain ==
    /\ pc = "holdout_retrain"
    /\ trainer_calls' =
          Append(trainer_calls,
                 TrainerCall("retrain", RetrainCrossValidation, model, next_model))
    /\ \E t \in trainer_tables :
          master_model_container' = TrainerContainer(RetrainCrossValidation, t)
    /\ model' = next_model
    /\ next_model' = next_model + 1
    /\ pc' = "holdout_repredict"
    /\ UNCHANGED <<session, name_or_id, metric, optimize, err, compare_dimension,
                   greater_is_better, best_model, best_score, i, n, entry,
                   display_container, automl_model,
                   predict_calls, predict_at, predict_error, examined, compared, pops>>

\* lines 2324-2331: create_model(cross_validation=False) raises
HoldoutRetrainRaises ==
    /\ pc = "holdout_retrain"
    /\ trainer_calls' =
          Append(trainer_calls, TrainerCall("retrain", RetrainCrossValidation, model, None))
    /\ pc' = "raised"
    /\ err' = "TrainerError"
    /\ UNCHANGED <<session, locals, name_or_id, metric, optimize,
                   master_model_container, display_container, automl_model,
                   next_model, predict_calls, predict_at, predict_error, examined, compared,
                   pops>>

\* lines 2333-2339: the second predict_model returns
HoldoutRepredict ==
    /\ pc = "holdout_repredict"
    /\ predict_calls' = predict_calls + 1
    /\ predict_at' = Append(predict_at, i)
    /\ \E p \in Scores : Compare(HoldoutScore(HoldoutTable(p)), model)
    /\ i' = i + 1
    /\ predict_error' = ""
    /\ pc' = "holdout_loop"
    /\ UNCHANGED <<session, name_or_id, metric, optimize, err, compare_dimension,
                   greater_is_better, n, entry, model, master_model_container,
                   display_container, automl_model, next_model, trainer_calls,
                   examined, pops>>

\* the failure of the second predict_model swallowed: on to the next entry
HoldoutRepredictRaises_Swallowed ==
    /\ pc = "holdout_repredict"
    /\ predict_calls' = predict_calls + 1
    /\ predict_at' = Append(predict_at, i)
    /\ i' = i + 1
    /\ predict_error' = ""
    /\ pc' = "holdout_loop"
    /\ UNCHANGED <<session, name_or_id, metric, optimize, err, compare_dimension,
                   greater_is_better, best_model, best_score, n, entry, model,
                   master_model_container, display_container, automl_model,
                   next_model, trainer_calls, examined, compared, pops>>

\* line 2333: the second predict_model raises
HoldoutRepredictRaises ==
    /\ pc = "holdout_repredict"
    /\ predict_calls' = predict_calls + 1
    /\ predict_at' = Append(predict_at, i)
    /\ pc' = "raised"
    /\ err' = "PredictError"
    /\ UNCHANGED <<session, locals, name_or_id, metric, optimize,
                   master_model_container, display_container, automl_model,
                   next_model, trainer_calls, predict_error, examined, compared,
                   pops>>

\* the iterator never reporting its end
HoldoutLoopEnd_Unreached ==
    /\ pc = "holdout_loop"
    /\ i > Len(master_model_container) + 1
    /\ pc' = "final"
    /\ UNCHANGED <<session, locals, history, name_or_id, metric, optimize, err,
                   master_model_container, display_container, automl_model,
                   next_model>>

\* line 2315: the iterator over the container is exhausted
HoldoutLoopEnd ==
    /\ pc = "holdout_loop"
    /\ i > Len(master_model_container)
    /\ pc' = "final"
    /\ UNCHANGED <<session, locals, history, name_or_id, metric, optimize, err,
                   master_model_container, display_container, automl_model,
                   next_model>>

-----------------------------------------------------------------------------
(* automl: final fit, lines 2367-2383 *)

\* automl returning the model it selected instead of the re-fitted one
ReturnValue_Selected(produced) == best_model

\* line 2383: the value automl returns, given the model the final create_model produced
ReturnValue(produced) == produced

\* lines 2367-2383: create_model(cross_validation=False) returns and automl returns
FinalRefit ==
    /\ pc = "final"
    /\ trainer_calls' = Append(trainer_calls, TrainerCall("final", FALSE, best_model, next_model))
    /\ automl_model' = ReturnValue(next_model)
    /\ next_model' = next_model + 1
    /\ pc' = "returned"
    /\ UNCHANGED <<session, locals, name_or_id, metric, optimize, err,
                   master_model_container, display_container, predict_calls, predict_at,
                   predict_error, examined, compared, pops>>

\* lines 2367-2374: create_model(cross_validation=False) raises
FinalRefitRaises ==
    /\ pc = "final"
    /\ trainer_calls' = Append(trainer_calls, TrainerCall("final", FALSE, best_model, None))
    /\ pc' = "raised"
    /\ err' = "TrainerError"
    /\ UNCHANGED <<session, locals, name_or_id, metric, optimize,
                   master_model_container, display_container, automl_model,
                   next_model, predict_calls, predict_at, predict_error, examined, compared,
                   pops>>

-----------------------------------------------------------------------------
(* Specification of automl *)

\* _mlflow_log_model and plot_model have not been called
OthersIdle ==
    /\ cv_calls = <<>>
    /\ params = <<>>
    /\ params_raises = FALSE
    /\ logged_params = <<>>
    /\ plot_args = <<>>
    /\ plot_outcome = ""
    /\ plot_saved = {}
    /\ plot_return = <<>>

Init ==
    /\ all_metrics = AutomlMetrics
    /\ name_or_id = ""
    /\ metric = None
    /\ master_model_container \in Containers
    /\ container0 = master_model_container
    /\ display_container = <<>>
    /\ fold_generator = DefaultFold
    /\ multiclass \in BOOLEAN
    /\ unsupervised \in BOOLEAN
    /\ optimize \in OptimizeArgs
    /\ use_holdout \in BOOLEAN
    /\ use_holdout => master_model_container \in HoldoutContainers
    /\ turbo \in BOOLEAN
    /\ pc = "start"
    /\ err = ""
    /\ compare_dimension = ""
    /\ greater_is_better = FALSE
    /\ best_model = None
    /\ best_score = <<>>
    /\ i = 0
    /\ n = 0
    /\ entry = NoEntry
    /\ model = None
    /\ predict_error = ""
    /\ automl_model = None
    /\ next_model = Len(master_model_container) + 1
    /\ trainer_calls = <<>>
    /\ predict_calls = 0
    /\ predict_at = <<>>
    /\ examined = {}
    /\ compared = <<>>
    /\ pops = 0
    /\ trainer_tables = ScoreTables
    /\ OthersIdle

Next ==
    \/ AutomlInvalidMetric
    \/ AutomlMulticlassUnsupported
    \/ AutomlBegin
    \/ CVSkip
    \/ CVRescore
    \/ CVRescoreRaises
    \/ CVPopCompare
    \/ CVCompareStored
    \/ CVLoopEnd
    \/ HoldoutPredict
    \/ HoldoutPredictRaises
    \/ HoldoutRetrain
    \/ HoldoutRetrainRaises
    \/ HoldoutRepredict
    \/ HoldoutRepredictRaises
    \/ HoldoutLoopEnd
    \/ FinalRefit
    \/ FinalRefitRaises

Spec == Init /\ [][Next]_vars

TypeOK ==
    /\ pc \in {"start", "cv_loop", "cv_rescored", "holdout_loop", "holdout_retrain",
               "holdout_repredict", "final", "returned", "raised"}
    /\ best_model \in Nat
    /\ Len(best_score) <= 1
    /\ i \in Nat

-----------------------------------------------------------------------------
(* Specification of _get_metric_by_name_or_id over arbitrary dictionaries *)

Descriptors ==
    [id : Names, display_name : Names, name : Names,
     greater_is_better : {TRUE}, is_multiclass : {TRUE}]

\* the metric dictionaries with at most MaxMetrics descriptors
MetricDicts ==
    {d \in UNION {[1..k -> Descriptors] : k \in 0..MaxMetrics} : UniqueKeys(d)}

LookupInit ==
    /\ all_metrics \in MetricDicts
    /\ name_or_id = ""
    /\ metric = None
    /\ master_model_container = <<>>
    /\ container0 = <<>>
    /\ display_container = <<>>
    /\ fold_generator = DefaultFold
    /\ multiclass = FALSE
    /\ unsupervised = FALSE
    /\ optimize = ""
    /\ use_holdout = FALSE
    /\ turbo = TRUE
    /\ pc = "idle"
    /\ err = ""
    /\ compare_dimension = ""
    /\ greater_is_better = FALSE
    /\ best_model = None
    /\ best_score = <<>>
    /\ i = 0
    /\ n = 0
    /\ entry = NoEntry
    /\ model = None
    /\ predict_error = ""
    /\ automl_model = None
    /\ next_model = 1
    /\ trainer_calls = <<>>
    /\ predict_calls = 0
    /\ predict_at = <<>>
    /\ examined = {}
    /\ compared = <<>>
    /\ pops = 0
    /\ trainer_tables = ScoreTables
    /\ OthersIdle

\* lines 136-157: one call of _get_metric_by_name_or_id
Lookup ==
    /\ pc = "idle"
    /\ \E key \in Names :
        /\ name_or_id' = key
        /\ metric' = _get_metric_by_name_or_id(key, all_metrics)
    /\ UNCHANGED <<session, locals, history, optimize, pc, err,
                   master_model_container, display_container, automl_model,
                   next_model>>

LookupNext == Lookup

SpecLookup == LookupInit /\ [][LookupNext]_vars

-----------------------------------------------------------------------------
(* Properties of _get_metric_by_name_or_id (specification SpecLookup) *)

\* the positions of a dictionary
Pos == 1..Len(all_metrics)

\* C8 as stated: for every descriptor d of the dictionary, a lookup by d's id
\* and a lookup by d's display_name both return d itself
C8_LookupSymmetry ==
    name_or_id # "" =>
        \A d \in Pos :
            (all_metrics[d].id = name_or_id \/ all_metrics[d].display_name = name_or_id)
                => metric = d

\* C8 amended: a lookup by d's id returns d; a lookup by d's display_name
\* succeeds, and returns d unless a descriptor has that string as its id or
\* an earlier descriptor has it as its display_name or name
C8_LookupSymmetryAmended ==
    name_or_id # "" =>
        \A d \in Pos :
            /\ all_metrics[d].id = name_or_id => metric = d
            /\ all_metrics[d].display_name = name_or_id =>
                /\ metric # None
                /\ ( /\ \A e \in Pos : all_metrics[e].id # name_or_id
                     /\ \A e \in 1..(d - 1) :
                            /\ all_metrics[e].display_name # name_or_id
                            /\ all_metrics[e].name # name_or_id )
                   => metric = d

\* a lookup by display_name returned the second descriptor of a dictionary
\* whose first descriptor does not match
C8_Witness ==
    /\ name_or_id # ""
    /\ Len(all_metrics) = 2
    /\ metric = 2
    /\ all_metrics[2].display_name = name_or_id
    /\ all_metrics[2].id # name_or_id
    /\ all_metrics[2].name # name_or_id

\* C9: the lookup returns the descriptor stored under key name_or_id if
\* there is one, otherwise the first descriptor in iteration order whose
\* display_name or name is name_or_id, otherwise None; and a lookup never
\* changes the dictionary
C9_LookupOrder ==
    /\ [](name_or_id # "" =>
            IF \E d \in Pos : all_metrics[d].id = name_or_id
            THEN metric # None /\ all_metrics[metric].id = name_or_id
            ELSE IF \E d \in Pos : name_or_id \in {all_metrics[d].display_name,
                                                   all_metrics[d].name}
            THEN /\ metric # None
                 /\ name_or_id \in {all_metrics[metric].display_name,
                                    all_metrics[metric].name}
                 /\ \A e \in 1..(metric - 1) :
                        name_or_id \notin {all_metrics[e].display_name,
                                           all_metrics[e].name}
            ELSE metric = None)
    /\ [][all_metrics' = all_metrics]_vars

\* a lookup returned the descriptor stored under the key although an
\* earlier descriptor has the key as its display_name
C9_Witness ==
    /\ name_or_id # ""
    /\ Len(all_metrics) = 2
    /\ metric = 2
    /\ all_metrics[2].id = name_or_id
    /\ all_metrics[1].display_name = name_or_id

-----------------------------------------------------------------------------
(* Properties of automl (specification Spec) *)

Max(S) == CHOOSE x \in S : \A y \in S : y <= x
Min(S) == CHOOSE x \in S : \A y \in S : x <= y

\* the best of a set of scores in the direction of the resolved metric
Best(S) == IF all_metrics[metric].greater_is_better THEN Max(S) ELSE Min(S)

\* the scan is over: automl is at, or past, the final create_model call
ScanEnded ==
    \/ pc \in {"final", "returned"}
    \/ pc = "raised" /\ trainer_calls # <<>> /\ Last(trainer_calls).site = "final"

\* automl ran to its end: it returned, or its final create_model call raised
Completed == ScanEnded /\ pc # "final"

\* the mean row of the stored score table of entry e, in the metric's column
StoredMean(e) ==
    e.scores[all_metrics[metric].display_name]
            [Len(e.scores[all_metrics[metric].display_name]) - 1]

\* C1: when several compared entries share the best score, the model
\* selected, and passed to the final fit, is that of the earliest of them
C1_TieBreak ==
    LET ties == {a \in DOMAIN compared :
                    compared[a].score = Best({compared[b].score : b \in DOMAIN compared})}
    IN  (pc \in {"final", "returned"} /\ Cardinality(ties) >= 2) =>
            /\ best_model = compared[Min(ties)].model
            /\ pc = "returned" => Last(trainer_calls).estimator = compared[Min(ties)].model

\* C2: under the CV basis with every entry scored on the default folds, the
\* selected entry has the maximum mean score if the metric is
\* greater_is_better and the minimum mean score if it is not
C2_Direction ==
    ( /\ pc \in {"final", "returned"}
      /\ ~use_holdout
      /\ container0 # <<>>
      /\ \A j \in DOMAIN container0 : container0[j].cv = fold_generator )
    => \E j \in DOMAIN container0 :
          /\ best_model = container0[j].model
          /\ StoredMean(container0[j]) =
                Best({StoredMean(container0[k]) : k \in DOMAIN container0})

\* C3: when the scan compared no entry, automl fails with NoEligibleModels,
\* makes no final create_model call and returns no model
C3_NoEligibleModels ==
    (Completed /\ compared = <<>>) =>
        /\ pc = "raised"
        /\ err = "NoEligibleModels"
        /\ \A a \in DOMAIN trainer_calls : trainer_calls[a].site # "final"

\* C4: with a multiclass target and a metric whose is_multiclass is false,
\* automl fails with the TypeError before reading an entry or calling the
\* Trainer or predict_model and leaves the container as it was; without a
\* multiclass target that error is never raised
C4_MulticlassGate ==
    /\ (pc # "start" /\ multiclass /\ metric # None /\ ~all_metrics[metric].is_multiclass)
        => /\ pc = "raised"
           /\ err = "TypeError"
           /\ examined = {}
           /\ trainer_calls = <<>>
           /\ predict_calls = 0
           /\ master_model_container = container0
    /\ ~multiclass => err # "TypeError"

\* automl rejected a metric for a multiclass target with a filled container
C4_Witness ==
    /\ pc = "raised"
    /\ err = "TypeError"
    /\ multiclass
    /\ name_or_id = "AUC"
    /\ Len(container0) = MaxEntries

\* C5: when optimize matches no id, display_name or name, automl fails with
\* the ValueError before reading an entry or calling the Trainer or
\* predict_model and leaves the container as it was
C5_InvalidMetric ==
    ( /\ pc # "start"
      /\ \A d \in Pos : name_or_id \notin {all_metrics[d].id,
                                          all_metrics[d].display_name,
                                          all_metrics[d].name} )
    => /\ pc = "raised"
       /\ err = "ValueError"
       /\ examined = {}
       /\ trainer_calls = <<>>
       /\ predict_calls = 0
       /\ master_model_container = container0

\* automl rejected an unknown metric with a filled container
C5_Witness ==
    /\ pc = "raised"
    /\ err = "ValueError"
    /\ name_or_id = "Bogus"
    /\ Len(container0) = MaxEntries

\* C6: under the CV basis with turbo, an entry scored with a non-default
\* generator is never compared, never becomes best_model and causes no
\* create_model call: the only create_model call is the final fit
C6_TurboSkip ==
    (~use_holdout /\ turbo) =>
        /\ \A a \in DOMAIN compared :
              container0[compared[a].index].cv = fold_generator
        /\ best_model # None =>
              \E j \in DOMAIN container0 :
                  /\ container0[j].model = best_model
                  /\ container0[j].cv = fold_generator
        /\ \A a \in DOMAIN trainer_calls :
              /\ trainer_calls[a].site = "final"
              /\ ~trainer_calls[a].cross_validation
              /\ a = 1

\* a turbo run returned after skipping an entry and comparing another
C6_Witness ==
    /\ pc = "returned"
    /\ ~use_holdout
    /\ turbo
    /\ compared # <<>>
    /\ \E j \in examined : container0[j].cv # fold_generator

\* C7: under the CV basis without turbo, in a supervised session, the
\* container is as long after automl as it was before
C7_LengthRestored ==
    (~use_holdout /\ ~turbo /\ ~unsupervised /\ Completed) =>
        Len(master_model_container) = Len(container0)

\* a run returned after re-scoring, and popping, two entries
C7_Witness ==
    /\ pc = "returned"
    /\ ~use_holdout
    /\ ~turbo
    /\ ~unsupervised
    /\ pops >= 2
    /\ Len(container0) >= 2

\* C10: when automl returns, exactly one create_model call was made with
\* cross validation disabled on the selected model; it is the last call,
\* made after every entry was scanned and every re-score popped; and the
\* value returned is the model that call produced, not a stored one
C10_FinalRefit ==
    pc = "returned" =>
        /\ Cardinality({a \in DOMAIN trainer_calls :
                            /\ ~trainer_calls[a].cross_validation
                            /\ trainer_calls[a].estimator = best_model}) = 1
        /\ ~Last(trainer_calls).cross_validation
        /\ Last(trainer_calls).estimator = best_model
        /\ examined = DOMAIN container0
        /\ Last(trainer_calls).at > Len(container0)
        /\ pops = Cardinality({a \in DOMAIN trainer_calls :
                                    trainer_calls[a].cross_validation})
        /\ automl_model = Last(trainer_calls).result
        /\ automl_model # None
        /\ \A j \in DOMAIN master_model_container :
              master_model_container[j].model # automl_model

\* a run returned after a re-score and a pop, with a model selected
C10_Witness ==
    /\ pc = "returned"
    /\ pops >= 1
    /\ best_model # None
    /\ Len(trainer_calls) >= 2

-----------------------------------------------------------------------------
(* Properties of automl: holdout basis and failures (specification Spec) *)

\* C11: under the holdout basis the model re-trained for an entry that
\* could not predict is not left in the container: when automl ends the
\* container holds exactly the entries it held before the call
C11_HoldoutRetrainTransient ==
    (use_holdout /\ pc \in {"returned", "raised"}) =>
        master_model_container = container0

\* a holdout run returned after re-training an entry
C11_Witness ==
    /\ use_holdout
    /\ pc = "returned"
    /\ \E a \in DOMAIN trainer_calls :
          trainer_calls[a].site = "retrain" /\ trainer_calls[a].result # None

\* C12: under the holdout basis only the not-fitted failure of
\* predict_model leads to the re-train; any other failure of predict_model
\* ends automl without a create_model call for that entry
C12_OnlyNotFitted ==
    (use_holdout /\ predict_error = "Other") =>
        /\ pc = "raised"
        /\ \A a \in DOMAIN trainer_calls : trainer_calls[a].at # i

\* C13: under the holdout basis each entry sees at most two predict_model
\* calls and at most one create_model call, made with cross validation
\* disabled; a failed re-train or a failed second prediction ends automl
\* with that failure, and the loop never passes an entry it did not compare
C13_RetryOnce ==
    use_holdout =>
        /\ \A j \in DOMAIN container0 :
              /\ Cardinality({a \in DOMAIN predict_at : predict_at[a] = j}) <= 2
              /\ Cardinality({a \in DOMAIN trainer_calls :
                                  trainer_calls[a].at = j}) <= 1
        /\ \A a \in DOMAIN trainer_calls :
              /\ ~trainer_calls[a].cross_validation
              /\ (trainer_calls[a].site = "retrain" /\ trainer_calls[a].result = None)
                    => /\ pc = "raised"
                       /\ err = "TrainerError"
                       /\ a = Len(trainer_calls)
                       /\ i = trainer_calls[a].at
        /\ \A j \in examined :
              (\A a \in DOMAIN compared : compared[a].index # j)
                    => /\ j = i
                       /\ Cardinality({a \in DOMAIN predict_at : predict_at[a] = j}) = 2
                            => pc = "raised" /\ err = "PredictError"

\* the second prediction of an entry failed while later entries were waiting
C13_Witness ==
    /\ use_holdout
    /\ pc = "raised"
    /\ err = "PredictError"
    /\ i < Len(container0)
    /\ Cardinality({a \in DOMAIN predict_at : predict_at[a] = i}) = 2

\* C14: under the CV basis without turbo, a create_model failure while
\* re-scoring ends automl with that failure: the entry is not skipped, no
\* later entry is read or compared, and there is no final fit and no result
C14_RescoreFailurePropagates ==
    ~use_holdout =>
        \A a \in DOMAIN trainer_calls :
            (trainer_calls[a].site = "rescore" /\ trainer_calls[a].result = None)
                => /\ pc = "raised"
                   /\ err = "TrainerError"
                   /\ a = Len(trainer_calls)
                   /\ automl_model = None
                   /\ i = trainer_calls[a].at
                   /\ \A j \in examined : j <= trainer_calls[a].at
                   /\ \A c \in DOMAIN compared : compared[c].index < trainer_calls[a].at

\* a re-score failed after an entry was compared and before the last entry
C14_Witness ==
    /\ ~use_holdout
    /\ ~turbo
    /\ pc = "raised"
    /\ trainer_calls # <<>>
    /\ Last(trainer_calls).site = "rescore"
    /\ compared # <<>>
    /\ i < Len(container0)

\* C16: under the CV basis without turbo, in an unsupervised session, an
\* entry scored with a non-default generator is never compared and causes
\* no re-score and no pop of the container
C16_UnsupervisedSkip ==
    (~use_holdout /\ ~turbo /\ unsupervised) =>
        /\ \A a \in DOMAIN compared :
              container0[compared[a].index].cv = fold_generator
        /\ \A a \in DOMAIN trainer_calls : trainer_calls[a].site # "rescore"
        /\ pops = 0
        /\ master_model_container = container0

\* an unsupervised run without turbo returned after skipping an entry and
\* comparing another
C16_Witness ==
    /\ pc = "returned"
    /\ ~use_holdout
    /\ ~turbo
    /\ unsupervised
    /\ compared # <<>>
    /\ \E j \in examined : container0[j].cv # fold_generator

-----------------------------------------------------------------------------
(* Specifications of the CV basis over generator objects and over score
   tables of several shapes *)

\* largest container of the generator specification
MaxGenEntries == 2

\* largest container of the score table specification
MaxRowEntries == 2

\* largest number of rows of a score table of the score table specification
MaxRows == 4

\* generator objects: 1 is the session default, 2 equals it by value, 3 does not
AllGens == {1, 2, 3}

GenContainers ==
    UNION {{[j \in 1..k |-> [model |-> j, cv |-> f[j].cv, scores |-> CVTable(f[j].m)]] :
                f \in [1..k -> [cv : AllGens, m : Scores]]} : k \in 0..MaxGenEntries}

\* the rows of one column with mean m in a table of L rows: fold rows, then
\* the mean row and the standard deviation row
Rows(m, L) ==
    [k \in 1..L |-> IF k = L THEN 1
                    ELSE IF k = L - 1 THEN m
                    ELSE IF k % 2 = 1 THEN m - 1 ELSE m + 1]

\* a score table of L rows whose columns differ
RichTable(m, L) ==
    [c \in Columns |-> Rows(IF c = "Accuracy" THEN m ELSE 0 - m, L)]

RichTables == {RichTable(m, L) : m \in Scores, L \in 2..MaxRows}

RowContainers ==
    UNION {{[j \in 1..k |-> [model |-> j, cv |-> f[j].cv, scores |-> f[j].scores]] :
                f \in [1..k -> [cv : CVGens, scores : RichTables]]} : k \in 0..MaxRowEntries}

\* automl is called under the CV basis; the session flags are not yet drawn
CVStart ==
    /\ all_metrics = AutomlMetrics
    /\ name_or_id = ""
    /\ metric = None
    /\ container0 = master_model_container
    /\ display_container = <<>>
    /\ fold_generator = DefaultFold
    /\ multiclass = FALSE
    /\ use_holdout = FALSE
    /\ turbo \in BOOLEAN
    /\ pc = "start"
    /\ err = ""
    /\ compare_dimension = ""
    /\ greater_is_better = FALSE
    /\ best_model = None
    /\ best_score = <<>>
    /\ i = 0
    /\ n = 0
    /\ entry = NoEntry
    /\ model = None
    /\ predict_error = ""
    /\ automl_model = None
    /\ next_model = Len(master_model_container) + 1
    /\ trainer_calls = <<>>
    /\ predict_calls = 0
    /\ predict_at = <<>>
    /\ examined = {}
    /\ compared = <<>>
    /\ pops = 0
    /\ OthersIdle

GensInit ==
    /\ master_model_container \in GenContainers
    /\ optimize = "acc"
    /\ unsupervised \in BOOLEAN
    /\ trainer_tables = ScoreTables
    /\ CVStart

RowsInit ==
    /\ master_model_container \in RowContainers
    /\ optimize \in {"acc", "mae"}
    /\ unsupervised = FALSE
    /\ trainer_tables = RichTables
    /\ CVStart

CVNext ==
    \/ AutomlBegin
    \/ CVSkip
    \/ CVRescore
    \/ CVRescoreRaises
    \/ CVPopCompare
    \/ CVCompareStored
    \/ CVLoopEnd
    \/ FinalRefit
    \/ FinalRefitRaises

SpecGens == GensInit /\ [][CVNext]_vars

SpecRows == RowsInit /\ [][CVNext]_vars

\* C15 (specification SpecGens): under the CV basis an entry counts as
\* scored with the default folds exactly when its generator is the very
\* object self.fold_generator: such an entry is compared without a re-score;
\* any other entry, also one whose generator equals the default by value, is
\* skipped under turbo or in an unsupervised session and re-scored otherwise
C15_DefaultByIdentity ==
    \A j \in examined :
        LET rescored == \E a \in DOMAIN trainer_calls :
                            trainer_calls[a].site = "rescore" /\ trainer_calls[a].at = j
            wascompared == \E a \in DOMAIN compared : compared[a].index = j
        IN  IF container0[j].cv = fold_generator
            THEN wascompared /\ ~rescored
            ELSE IF turbo \/ unsupervised
            THEN ~wascompared /\ ~rescored
            ELSE rescored

\* a run returned after re-scoring an entry whose generator is another
\* object than the default with the default's configuration
C15_Witness ==
    /\ pc = "returned"
    /\ \E j \in examined :
          /\ container0[j].cv # fold_generator
          /\ GenValue(container0[j].cv) = GenValue(fold_generator)
          /\ \E a \in DOMAIN trainer_calls :
                trainer_calls[a].site = "rescore" /\ trainer_calls[a].at = j

\* C17 (specification SpecRows): under the CV basis the score compared for
\* an entry is the second-to-last row, in the column of the metric's
\* display_name, of the entry's effective table (the table of the entry the
\* re-score appended, or else the stored table) when that has two rows or more
C17_MeanRowCompared ==
    [][ (~use_holdout /\ Len(compared') = Len(compared) + 1) =>
            LET t == IF pc = "cv_rescored"
                     THEN Last(master_model_container).scores
                     ELSE master_model_container[i].scores
                col == t[all_metrics[metric].display_name]
            IN  Len(col) >= 2 => Last(compared').score = col[Len(col) - 1] ]_vars

\* a run over the MAE column returned after comparing a stored table of
\* three rows and a re-scored entry
C17_Witness ==
    /\ pc = "returned"
    /\ name_or_id = "mae"
    /\ pops >= 1
    /\ \E a \in DOMAIN compared :
          /\ container0[compared[a].index].cv = fold_generator
          /\ Len(container0[compared[a].index].scores["MAE"]) = 3
          /\ compared[a].score # 0

-----------------------------------------------------------------------------
(* Parameter logging of _mlflow_log_model *)

MaxParams == 2

\* the longest string representation a logged parameter value may have
ParamLimit == 250

\* parameter names; "tol?" holds a character MLflow does not accept
ParamKeys == {"alpha", "tol", "tol?"}

\* lengths of str(v) of the parameter values, around the limit
ValueLens == {1, ParamLimit, ParamLimit + 1}

\* a parameter value: an object known by its identity and the length of its
\* string representation
ParamValues == [id : 1..MaxParams, len : ValueLens]

\* the dictionaries get_all_params() / get_params() return: insertion-ordered
\* items with distinct keys; the value of the a-th item is the a-th object
ParamDicts ==
    {d \in UNION {[1..k -> [key : ParamKeys, value : ParamValues]] : k \in 0..MaxParams} :
        /\ \A a, b \in DOMAIN d : d[a].key = d[b].key => a = b
        /\ \A a \in DOMAIN d : d[a].value.id = a}

\* mlflow_remove_bad_chars(k)
mlflow_remove_bad_chars(k) == IF k = "tol?" THEN "tol" ELSE k

\* try get_all_params(), except get_params(), except: params = {}
GetParams == IF params_raises THEN <<>> ELSE params

TooLong_Inclusive(v) == v.len >= ParamLimit

\* len(str(v)) > 250
TooLong(v) == v.len > ParamLimit

KeepShort(item) == ~TooLong(item.value)

\* for i in list(params): if len(str(v)) > 250: params.pop(i)
PopLong(d) == SelectSeq(d, KeepShort)

\* {mlflow_remove_bad_chars(k): v for k, v in params.items()}: a later item
\* replaces an earlier one with the same new key
CleanKeys(d) ==
    [k \in {mlflow_remove_bad_chars(d[a].key) : a \in DOMAIN d} |->
        LET at == {a \in DOMAIN d : mlflow_remove_bad_chars(d[a].key) = k}
        IN  d[CHOOSE a \in at : \A b \in at : b <= a].value]

\* the other operations' variables, untouched by logging and plotting
automl_vars ==
    <<all_metrics, name_or_id, metric, master_model_container,
      display_container, fold_generator, multiclass, unsupervised, optimize,
      use_holdout, turbo, pc, err, compare_dimension, greater_is_better,
      best_model, best_score, i, n, entry, model, predict_error, automl_model,
      next_model, trainer_calls, predict_calls, predict_at, examined,
      compared, pops, container0, trainer_tables, cv_calls>>

\* automl has not been called
AutomlIdle ==
    /\ all_metrics = AutomlMetrics
    /\ name_or_id = ""
    /\ metric = None
    /\ master_model_container = <<>>
    /\ container0 = <<>>
    /\ display_container = <<>>
    /\ fold_generator = DefaultFold
    /\ unsupervised = FALSE
    /\ optimize = ""
    /\ use_holdout = FALSE
    /\ turbo = TRUE
    /\ pc = "idle"
    /\ err = ""
    /\ compare_dimension = ""
    /\ greater_is_better = FALSE
    /\ best_model = None
    /\ best_score = <<>>
    /\ i = 0
    /\ n = 0
    /\ entry = NoEntry
    /\ model = None
    /\ predict_error = ""
    /\ automl_model = None
    /\ next_model = 1
    /\ trainer_calls = <<>>
    /\ predict_calls = 0
    /\ predict_at = <<>>
    /\ examined = {}
    /\ compared = <<>>
    /\ pops = 0
    /\ trainer_tables = ScoreTables
    /\ cv_calls = <<>>

MlflowInit ==
    /\ AutomlIdle
    /\ multiclass = FALSE
    /\ params \in ParamDicts
    /\ params_raises \in BOOLEAN
    /\ logged_params = <<>>
    /\ plot_args = <<>>
    /\ plot_outcome = ""
    /\ plot_saved = {}
    /\ plot_return = <<>>

\* lines 215-232: mlflow.log_params(params)
MlflowLogParams ==
    /\ pc = "idle"
    /\ logged_params = <<>>
    /\ logged_params' = <<CleanKeys(PopLong(GetParams))>>
    /\ UNCHANGED <<automl_vars, params, params_raises, plot_args, plot_outcome,
                   plot_saved, plot_return>>

MlflowNext == MlflowLogParams

SpecMlflow == MlflowInit /\ [][MlflowNext]_vars

\* no two parameter names become the same key
DistinctCleanKeys ==
    \A a, b \in DOMAIN params :
        mlflow_remove_bad_chars(params[a].key) = mlflow_remove_bad_chars(params[b].key)
            => a = b

\* C19 as stated (specification SpecMlflow): every parameter of the model
\* appears in the logged dictionary; one whose string representation is
\* longer than 250 characters is logged with a truncated value (another
\* object, at most 250 characters long), one of 250 characters or fewer is
\* logged unchanged
C19_Truncated ==
    (logged_params # <<>> /\ ~params_raises /\ DistinctCleanKeys) =>
        \A a \in DOMAIN params :
            LET k == mlflow_remove_bad_chars(params[a].key)
            IN  /\ k \in DOMAIN logged_params[1]
                /\ IF params[a].value.len > ParamLimit
                   THEN logged_params[1][k].len <= ParamLimit
                   ELSE logged_params[1][k] = params[a].value

\* C19 amended (specification SpecMlflow): a parameter whose string
\* representation is longer than 250 characters is left out of the logged
\* dictionary; one of 250 characters or fewer is logged unchanged under its
\* name with the bad characters removed (names that stay distinct); nothing
\* else is logged, and nothing at all when the parameters cannot be read
C19_LongDropped ==
    logged_params # <<>> =>
        /\ params_raises => DOMAIN logged_params[1] = {}
        /\ DOMAIN logged_params[1] \subseteq
              {mlflow_remove_bad_chars(params[a].key) : a \in DOMAIN params}
        /\ (~params_raises /\ DistinctCleanKeys) =>
              \A a \in DOMAIN params :
                  LET k == mlflow_remove_bad_chars(params[a].key)
                  IN  IF params[a].value.len > ParamLimit
                      THEN k \notin DOMAIN logged_params[1]
                      ELSE /\ k \in DOMAIN logged_params[1]
                           /\ logged_params[1][k] = params[a].value

\* a model with one parameter of 251 characters and one of exactly 250
\* characters has been logged
C19_Witness ==
    /\ logged_params # <<>>
    /\ ~params_raises
    /\ DistinctCleanKeys
    /\ \E a, b \in DOMAIN params :
          /\ params[a].value.len = ParamLimit + 1
          /\ params[b].value.len = ParamLimit
          /\ DOMAIN logged_params[1] = {mlflow_remove_bad_chars(params[b].key)}

-----------------------------------------------------------------------------
(* Argument validation of plot_model *)

\* self._available_plots: the plot kinds of the session
AvailablePlots ==
    {"auc", "calibration", "threshold", "manifold", "rfe", "feature",
     "feature_all", "tree", "pr", "parameter", "residuals_interactive"}

\* the attributes of the estimator the checks look at
Estimators ==
    [fit : BOOLEAN, predict_proba : BOOLEAN, coef_ : BOOLEAN,
     feature_importances_ : BOOLEAN, is_tree : BOOLEAN]

\* the arguments of a call; fold, label, use_train_data and feature_name are
\* known by their type, streamlit by whether the import succeeds
PlotArgs ==
    [estimator : Estimators,
     plot : AvailablePlots \cup {"bogus"},
     fold : {"None", "int", "cv_generator", "str"},
     display_format : {"None", "streamlit", "html"},
     streamlit : BOOLEAN,
     label : {"bool", "str"},
     use_train_data : {"bool", "str"},
     feature_name : {"None", "str", "int"},
     save : {"False", "True", "dir"}]

\* plot_formats = [None, "streamlit"]
plot_formats == {"None", "streamlit"}

multiclass_not_available_NoRfe == {"calibration", "threshold", "manifold"}

\* multiclass_not_available = ["calibration", "threshold", "manifold", "rfe"]
multiclass_not_available == {"calibration", "threshold", "manifold", "rfe"}

\* if self._is_multiclass(): if plot in multiclass_not_available
MulticlassGate(a) == multiclass /\ a.plot \in multiclass_not_available

PlotAvailable_Always(a) == TRUE

\* line 613: plot in self._available_plots
PlotAvailable(a) == a.plot \in AvailablePlots

FeatureGate_CoefOnly(a) ==
    /\ ~a.estimator.coef_
    /\ a.plot \in {"feature", "feature_all", "rfe"}

\* lines 680-682: neither coef_ nor feature_importances_, and a plot of the
\* feature importances
FeatureGate(a) ==
    /\ ~(a.estimator.coef_ \/ a.estimator.feature_importances_)
    /\ a.plot \in {"feature", "feature_all", "rfe"}

FoldGate_IntOnly(a) == a.fold # "None" /\ a.fold # "int"

\* lines 688-690: fold is not None and not (type(fold) is int or
\* is_sklearn_cv_generator(fold))
FoldGate(a) == a.fold # "None" /\ ~(a.fold = "int" \/ a.fold = "cv_generator")

\* the checks of plot_model in the order of the code: the first that fails
\* names the exception raised; "render" when all of them pass
PlotCheck(a) ==
    IF ~a.estimator.fit THEN "ValueError: fit"
    ELSE IF ~PlotAvailable(a) THEN "ValueError: plot"
    ELSE IF a.display_format \notin plot_formats THEN "ValueError: display_format"
    ELSE IF a.display_format = "streamlit" /\ ~a.streamlit THEN "ImportError: streamlit"
    ELSE IF MulticlassGate(a) THEN "ValueError: multiclass"
    ELSE IF ~a.estimator.predict_proba /\ a.plot = "auc" THEN "TypeError: auc"
    ELSE IF ~a.estimator.predict_proba /\ a.plot = "calibration"
        THEN "TypeError: calibration"
    ELSE IF a.plot = "tree" /\ ~a.estimator.is_tree THEN "TypeError: tree"
    ELSE IF FeatureGate(a) THEN "TypeError: feature"
    ELSE IF FoldGate(a) THEN "TypeError: fold"
    ELSE IF a.label # "bool" THEN "TypeError: label"
    ELSE IF a.use_train_data # "bool" THEN "TypeError: use_train_data"
    ELSE IF a.feature_name # "None" /\ a.feature_name # "str"
        THEN "TypeError: feature_name"
    ELSE "render"

\* self._available_plots[plot]: the display name of a plot kind
plot_name(a) == <<"name of", a.plot>>

\* a file path: the directory ("" is the working directory), the file's
\* base name (the display name of a plot kind, or the kind itself) and its
\* extension ("" for none)
Path(dir, base, ext) == [dir |-> dir, base |-> base, ext |-> ext]

\* the plots drawn with plotly, whose functions return plot_filename
HtmlPlots == {"residuals_interactive"}

\* the plots drawn with matplotlib in plot_model itself
MatplotlibPlots == {"calibration", "tree", "feature", "feature_all"}

\* the plots handed to show_yellowbrick_plot(name=plot_name, save=save)
YellowbrickPlots == {"auc", "threshold", "pr", "rfe", "manifold"}

\* lines 785-793: plot_filename of a plotly plot; with save=True it is the
\* plot kind itself
HtmlFilename(a) ==
    IF a.save = "False" THEN Path("", plot_name(a), "html")
    ELSE IF a.save = "dir" THEN Path("dir", plot_name(a), "html")
    ELSE Path("", <<"kind", a.plot>>, "")

\* lines 2087-2090: the local plot_filename of a matplotlib plot that is saved
PngFilename(a) ==
    IF a.save = "dir" THEN Path("dir", plot_name(a), "png")
    ELSE Path("", plot_name(a), "png")

\* the files show_yellowbrick_plot(name=plot_name, save=save) writes
show_yellowbrick_plot(a) == {PngFilename(a)}

\* the files the plot function writes; the parameter plot writes none
Written(a) ==
    IF a.save = "False" THEN {}
    ELSE IF a.plot \in HtmlPlots THEN {HtmlFilename(a)}
    ELSE IF a.plot \in MatplotlibPlots THEN {PngFilename(a)}
    ELSE IF a.plot \in YellowbrickPlots THEN show_yellowbrick_plot(a)
    ELSE {}

\* line 2139: ret = locals()[plot](); only the plotly functions return a value
PlotFunctionReturn(a) ==
    IF a.plot \in HtmlPlots THEN <<HtmlFilename(a)>> ELSE <<>>

\* lines 756, 2140-2141, 2154-2155: plot_filename = f"{plot_name}.png";
\* if ret: plot_filename = ret; if save: return plot_filename
PlotReturn(a) ==
    IF a.save = "False" THEN <<>>
    ELSE IF PlotFunctionReturn(a) # <<>> THEN PlotFunctionReturn(a)
    ELSE <<Path("", plot_name(a), "png")>>

PlotInit ==
    /\ AutomlIdle
    /\ multiclass \in BOOLEAN
    /\ params = <<>>
    /\ params_raises = FALSE
    /\ logged_params = <<>>
    /\ plot_args = <<>>
    /\ plot_outcome = ""
    /\ plot_saved = {}
    /\ plot_return = <<>>

\* plot_model(estimator, plot, save, fold, ...): the error handling, and when
\* it passes the plot function and the return
PlotModel ==
    /\ pc = "idle"
    /\ plot_outcome = ""
    /\ \E a \in PlotArgs :
          /\ plot_args' = <<a>>
          /\ plot_outcome' = PlotCheck(a)
          /\ IF PlotCheck(a) = "render"
             THEN plot_saved' = Written(a) /\ plot_return' = PlotReturn(a)
             ELSE UNCHANGED <<plot_saved, plot_return>>
    /\ UNCHANGED <<automl_vars, params, params_raises, logged_params>>

PlotNext == PlotModel

SpecPlot == PlotInit /\ [][PlotNext]_vars

\* the checks that precede the multiclass check let the call through
ReachesMulticlassCheck(a) ==
    /\ a.estimator.fit
    /\ a.plot \in AvailablePlots
    /\ a.display_format \in {"None", "streamlit"}
    /\ (a.display_format = "streamlit" => a.streamlit)

\* C20 (specification SpecPlot): with a multiclass target plot_model raises
\* for each of the kinds calibration, threshold, manifold and rfe and never
\* gets to rendering them; the multiclass error is raised for no other kind
\* and never when the target is not multiclass
C20_MulticlassGate ==
    plot_outcome # "" =>
        LET a == plot_args[1]
            gated == a.plot \in {"calibration", "threshold", "manifold", "rfe"}
        IN  /\ (multiclass /\ gated) => plot_outcome # "render"
            /\ (multiclass /\ gated /\ ReachesMulticlassCheck(a)) =>
                  plot_outcome = "ValueError: multiclass"
            /\ plot_outcome = "ValueError: multiclass" => (multiclass /\ gated)

\* an rfe plot of an estimator that passes every other check was rejected
\* for the multiclass target
C20_Witness ==
    /\ plot_outcome = "ValueError: multiclass"
    /\ multiclass
    /\ plot_args[1].plot = "rfe"
    /\ plot_args[1].estimator.coef_
    /\ plot_args[1].fold = "None"
    /\ plot_args[1].label = "bool"
    /\ plot_args[1].use_train_data = "bool"
    /\ plot_args[1].feature_name = "None"

\* the checks that precede the capability checks let the call through
ReachesCapabilityChecks(a) == ReachesMulticlassCheck(a) /\ ~MulticlassGate(a)

\* C21 (specification SpecPlot): plot_model raises and renders nothing for
\* auc and calibration when the estimator has no predict_proba, and for
\* feature, feature_all and rfe when it has neither coef_ nor
\* feature_importances_; the errors of these checks are raised for no
\* estimator that has the capability
C21_CapabilityGates ==
    plot_outcome # "" =>
        LET a == plot_args[1]
            proba == a.plot \in {"auc", "calibration"} /\ ~a.estimator.predict_proba
            feat == /\ a.plot \in {"feature", "feature_all", "rfe"}
                    /\ ~a.estimator.coef_
                    /\ ~a.estimator.feature_importances_
        IN  /\ (proba \/ feat) => (plot_outcome # "render" /\ plot_saved = {})
            /\ (proba /\ ReachesCapabilityChecks(a)) =>
                  plot_outcome \in {"TypeError: auc", "TypeError: calibration"}
            /\ (feat /\ ~proba /\ ReachesCapabilityChecks(a)) =>
                  plot_outcome = "TypeError: feature"
            /\ plot_outcome \in {"TypeError: auc", "TypeError: calibration"} => proba
            /\ plot_outcome = "TypeError: feature" => feat

\* a feature plot of an estimator with neither coef_ nor
\* feature_importances_ was rejected, and so was an AUC plot
C21_Witness ==
    /\ plot_outcome = "TypeError: feature"
    /\ plot_args[1].plot = "feature_all"
    /\ plot_args[1].estimator.predict_proba
    /\ plot_args[1].save = "True"

\* C22 (specification SpecPlot): for an estimator with a fit method a plot
\* kind outside self._available_plots raises the plot-not-available error
\* whatever the other arguments are, and nothing is rendered or written; a
\* kind inside the set never raises it
C22_PlotKind ==
    plot_outcome # "" =>
        LET a == plot_args[1]
        IN  /\ (a.estimator.fit /\ a.plot \notin AvailablePlots) =>
                  (plot_outcome = "ValueError: plot" /\ plot_saved = {})
            /\ plot_outcome = "ValueError: plot" => a.plot \notin AvailablePlots

\* an unknown plot kind was rejected in a call whose display_format and fold
\* are invalid as well
C22_Witness ==
    /\ plot_outcome = "ValueError: plot"
    /\ plot_args[1].display_format = "html"
    /\ plot_args[1].fold = "str"

\* C24 (specification SpecPlot): a fold that is neither None, an int nor a
\* CV generator never gets to the splitter and the rendering, and raises the
\* fold error when the checks before it pass; None, an int and a CV
\* generator never raise it
C24_InvalidFold ==
    plot_outcome # "" =>
        LET a == plot_args[1]
            bad == a.fold \notin {"None", "int", "cv_generator"}
        IN  /\ bad => (plot_outcome # "render" /\ plot_saved = {})
            /\ ( /\ bad
                 /\ ReachesCapabilityChecks(a)
                 /\ ~(a.plot \in {"auc", "calibration"} /\ ~a.estimator.predict_proba)
                 /\ ~(a.plot = "tree" /\ ~a.estimator.is_tree)
                 /\ ~FeatureGate(a) ) => plot_outcome = "TypeError: fold"
            /\ plot_outcome = "TypeError: fold" => bad

\* a call with a string for fold and invalid label was rejected for the fold
C24_Witness ==
    /\ plot_outcome = "TypeError: fold"
    /\ plot_args[1].fold = "str"
    /\ plot_args[1].label = "str"

\* C25 as stated (specification SpecPlot): with a truthy save plot_model
\* returns the path of the file the plot was written to, for every plot
\* kind; with save=False it returns None
C25_ReturnsSavedFile ==
    plot_outcome = "render" =>
        IF plot_args[1].save = "False"
        THEN plot_return = <<>>
        ELSE /\ plot_return # <<>>
             /\ plot_saved = {plot_return[1]}

-----------------------------------------------------------------------------
(* _get_cv_splitter and the entries the Trainer stores *)

MaxFoldEntries == 2

\* the fold arguments: None, an integer, or a generator object (2 has the
\* configuration of the session default, 3 has another)
FoldSpecs ==
    {[kind |-> "None", obj |-> 0], [kind |-> "int", obj |-> 0],
     [kind |-> "cv", obj |-> 2], [kind |-> "cv", obj |-> 3]}

\* the generator object built for an integer fold by the c-th call
NewGen(c) == 10 + c

\* pycaret.internal.utils.get_cv_splitter(fold, default, ...) as the c-th call
get_cv_splitter(fold, default, c) ==
    IF fold.kind = "None" THEN default
    ELSE IF fold.kind = "int" THEN NewGen(c)
    ELSE fold.obj

\* a splitter call handing over a copy of the default generator
_get_cv_splitter_DefaultCopied(fold, c) == get_cv_splitter(fold, 2, c)

\* lines 114-122: get_cv_splitter(fold, default=self.fold_generator, ...)
_get_cv_splitter(fold, c) == get_cv_splitter(fold, fold_generator, c)

\* create_model(fold=fold) before automl is called: the Trainer resolves the
\* fold and stores the splitter in the entry it appends
CreateModel ==
    /\ pc = "start"
    /\ Len(master_model_container) < MaxFoldEntries
    /\ \E fold \in FoldSpecs, t \in trainer_tables :
          LET cv == _get_cv_splitter(fold, Len(cv_calls) + 1) IN
          /\ cv_calls' = Append(cv_calls, [fold |-> fold, result |-> cv])
          /\ master_model_container' =
                Append(master_model_container,
                       [model |-> next_model, cv |-> cv, scores |-> t])
    /\ container0' = master_model_container'
    /\ next_model' = next_model + 1
    /\ UNCHANGED <<all_metrics, name_or_id, metric, display_container,
                   fold_generator, multiclass, unsupervised, optimize,
                   use_holdout, turbo, pc, err, locals, predict_error,
                   automl_model, trainer_calls, predict_calls, predict_at,
                   examined, compared, pops, trainer_tables, params,
                   params_raises, logged_params, plot_args, plot_outcome,
                   plot_saved, plot_return>>

FoldInit ==
    /\ master_model_container = <<>>
    /\ optimize = "acc"
    /\ unsupervised = FALSE
    /\ trainer_tables = ScoreTables
    /\ CVStart

FoldNext == CreateModel \/ CVNext

SpecFold == FoldInit /\ [][FoldNext]_vars

\* C23 (specification SpecFold): _get_cv_splitter(None) is the object
\* self.fold_generator and a generator passed as fold is returned as it is;
\* an entry created with fold=None carries the default generator and, under
\* turbo, is compared by automl without a re-score
C23_FoldNoneIsDefault ==
    /\ \A c \in DOMAIN cv_calls :
          /\ cv_calls[c].fold.kind = "None" => cv_calls[c].result = fold_generator
          /\ cv_calls[c].fold.kind = "cv" => cv_calls[c].result = cv_calls[c].fold.obj
    /\ \A j \in DOMAIN container0 :
          cv_calls[j].fold.kind = "None" =>
              /\ container0[j].cv = fold_generator
              /\ (turbo /\ pc \in {"final", "returned"}) =>
                    /\ \E a \in DOMAIN compared : compared[a].index = j
                    /\ \A a \in DOMAIN trainer_calls : trainer_calls[a].at # j

\* a turbo run returned the model created with fold=None after skipping one
\* created with a generator of the default's configuration
C23_Witness ==
    /\ pc = "returned"
    /\ turbo
    /\ Len(container0) = 2
    /\ cv_calls[1].fold = [kind |-> "cv", obj |-> 2]
    /\ cv_calls[2].fold.kind = "None"
    /\ automl_model # None
    /\ 1 \notin {compared[a].index : a \in DOMAIN compared}

-----------------------------------------------------------------------------
(* Frame, ordering and termination of automl *)

\* C26: after a CV-basis run that returned, whatever turbo is, the model
\* container is the sequence it was when automl was called: the same
\* entries in the same order, each with its model, generator and table
C26_RegistryRestored ==
    (~use_holdout /\ pc = "returned") => master_model_container = container0

\* a run without turbo returned after re-scoring the first of two entries
\* and comparing the stored table of the second
C26_Witness ==
    /\ pc = "returned"
    /\ ~use_holdout
    /\ ~turbo
    /\ Len(container0) = 2
    /\ container0[1].cv # fold_generator
    /\ container0[2].cv = fold_generator
    /\ container0[1].scores # container0[2].scores
    /\ pops = 1

\* C27: at every point of a CV-basis run the entries of the call's start
\* are in the container at their indices, the container holds at most one
\* entry more, and the index the scan reads next is inside the container
C27_TransientEntry ==
    (~use_holdout /\ pc # "start") =>
        /\ Len(master_model_container) >= Len(container0)
        /\ SubSeq(master_model_container, 1, Len(container0)) = container0
        /\ Len(master_model_container) <= Len(container0) + 1
        /\ (pc = "cv_loop" /\ i <= n) => i \in DOMAIN master_model_container
        /\ pc = "cv_rescored" => i \in DOMAIN container0

\* the scan is at its last entry while the container holds the entry a
\* re-score of that entry appended
C27_Witness ==
    /\ pc = "cv_rescored"
    /\ ~use_holdout
    /\ i = Len(container0)
    /\ i >= 2
    /\ Len(master_model_container) = Len(container0) + 1
    /\ pops >= 1

\* the indices of the comparisons whose score is the best one
BestCompared ==
    {a \in DOMAIN compared :
        compared[a].score = Best({compared[b].score : b \in DOMAIN compared})}

\* C28: when no compared score is 0, at the end of the scan best_score is
\* the maximum (greater_is_better) or minimum of the compared scores and
\* best_model the model of the earliest comparison attaining it; during the
\* scan best_model is None exactly when best_score is None
C28_NonzeroSelection ==
    (\A a \in DOMAIN compared : compared[a].score # 0) =>
        /\ (pc \in {"final", "returned"} /\ compared # <<>>) =>
              /\ best_score = <<Best({compared[b].score : b \in DOMAIN compared})>>
              /\ best_model = compared[Min(BestCompared)].model
        /\ (best_model = None) <=> (best_score = <<>>)
        /\ (pc \in {"cv_loop", "cv_rescored", "holdout_loop", "holdout_retrain",
                    "holdout_repredict", "final", "returned"}) =>
              ((best_score = <<>>) <=> (compared = <<>>))

\* the scan ended after three comparisons of nonzero scores, the best score
\* attained by two of them and not by the first
C28_Witness ==
    /\ pc = "final"
    /\ Len(compared) = 3
    /\ \A a \in DOMAIN compared : compared[a].score # 0
    /\ BestCompared = {2, 3}
    /\ best_model = compared[2].model

\* the re-score calls made so far
Rescores == {a \in DOMAIN trainer_calls : trainer_calls[a].site = "rescore"}

\* C29: under the CV basis without turbo in a supervised session the
\* Trainer is called with cross validation exactly for the entries with
\* another generator than the default, once each and in container order,
\* on the entry's stored model; each call that returned is followed by one
\* pop before the next entry is read; and the model compared for such an
\* entry is its stored model, not the one the call produced
C29_RescoreCalls ==
    (~use_holdout /\ ~turbo /\ ~unsupervised) =>
        /\ \A a \in DOMAIN trainer_calls :
              trainer_calls[a].cross_validation <=> a \in Rescores
        /\ \A a \in Rescores :
              /\ trainer_calls[a].at \in DOMAIN container0
              /\ container0[trainer_calls[a].at].cv # fold_generator
              /\ trainer_calls[a].estimator = container0[trainer_calls[a].at].model
        /\ \A a, b \in Rescores : a < b => trainer_calls[a].at < trainer_calls[b].at
        /\ \A j \in examined :
              container0[j].cv # fold_generator =>
                  \E a \in Rescores : trainer_calls[a].at = j
        /\ pc \in {"final", "returned"} => examined = DOMAIN container0
        /\ Cardinality({a \in Rescores : trainer_calls[a].result # None}) =
              pops + (IF pc = "cv_rescored" THEN 1 ELSE 0)
        /\ pc = "cv_rescored" => \A j \in examined : j <= i
        /\ pc = "cv_loop" => Len(master_model_container) = Len(container0)
        /\ \A c \in DOMAIN compared :
              container0[compared[c].index].cv # fold_generator =>
                  /\ compared[c].model = container0[compared[c].index].model
                  /\ \A a \in Rescores : trainer_calls[a].result # compared[c].model

\* a run returned after re-scoring the first and the third of three entries
\* and selecting the stored model of a re-scored one
C29_Witness ==
    /\ pc = "returned"
    /\ ~use_holdout
    /\ ~turbo
    /\ ~unsupervised
    /\ Len(container0) = 3
    /\ {trainer_calls[a].at : a \in Rescores} = {1, 3}
    /\ best_model = container0[3].model

\* largest container of the termination specification
MaxTermEntries == 2

TermInit == Init /\ Len(master_model_container) <= MaxTermEntries

\* automl is sequential code: while a step is possible one is taken, each
\* create_model and predict_model call returning or raising
SpecTerm == TermInit /\ [][Next]_vars /\ WF_vars(Next)

=============================================================================
